---------------------------- MODULE Spec2Model ----------------------------
(***************************************************************************)
(* Model of docs/qe_apidoc.py: the generator of Sphinx stub documents and  *)
(* index documents for the quantecon package.                              *)
(*                                                                         *)
(* Text is a sequence of atoms.  Module file names are spelled character   *)
(* by character, so that len(), split() and slicing act on them as they do *)
(* in the program; the fixed fragments of the templates and of the paths,  *)
(* which the program never inspects, are one atom each.  "\n" is the line  *)
(* break.  The program is Python 2 code: map() returns a list.             *)
(* In the template texts a backquote is written as an apostrophe.  The     *)
(* environment makes open() and write() fail at will; glob() and           *)
(* os.makedirs() always succeed.                                           *)
(***************************************************************************)
EXTENDS Integers, Sequences, FiniteSets, TLC

\* ------------------------------------------------------------------ bounds
MaxFiles == 2   \* files in the scanned source tree
MaxArgs == 2    \* command line arguments after the program name

\* ------------------------------------------------------------- input space
\* Characters of the modelled file names, with their ASCII codes.
Chars == {".", "_", "a", "b", "p", "y"}
Ord == [c \in Chars |->
          CASE c = "." -> 46 [] c = "_" -> 95 [] c = "a" -> 97
            [] c = "b" -> 98 [] c = "p" -> 112 [] c = "y" -> 121]

FileNames ==
  { <<"a", ".", "p", "y">>, <<"b", ".", "p", "y">>,
    <<"a", ".", "b", ".", "p", "y">>, <<"_", "a", ".", "p", "y">> }

ArgTokens == {"single", "foo"}

\* The scanned directories, named by their path below ../quantecon/.
SrcDirs == {"", "markov", "models", "models/solow", "random", "util"}

RECURSIVE UpTo(_, _)
UpTo(S, k) ==
  IF k = 0 THEN {{}}
  ELSE LET R == UpTo(S, k - 1) IN R \cup {T \cup {e} : T \in R, e \in S}

RECURSIVE ArgLists(_)
ArgLists(k) ==
  IF k = 0 THEN {<<>>}
  ELSE LET R == ArgLists(k - 1)
       IN R \cup {Append(a, t) : a \in {b \in R : Len(b) = k - 1}, t \in ArgTokens}

\* ------------------------------------------------------------ str and list
\* "=" * n
Rep(c, n) == [k \in 1..n |-> c]

\* x.split(sep)[-1]
RECURSIVE SplitLast(_, _)
SplitLast(x, sep) ==
  IF \E k \in 1..Len(x) : x[k] = sep
  THEN SplitLast(Tail(x), sep)
  ELSE x

\* x.split(sep)[0]
RECURSIVE SplitFirst(_, _)
SplitFirst(x, sep) ==
  IF x = <<>> \/ Head(x) = sep THEN <<>>
  ELSE <<Head(x)>> \o SplitFirst(Tail(x), sep)

\* x[:-3]
DropLast3(x) == SubSeq(x, 1, Len(x) - 3)

\* sep.join(xs)
RECURSIVE Join(_, _)
Join(sep, xs) ==
  IF xs = <<>> THEN <<>>
  ELSE IF Len(xs) = 1 THEN xs[1]
  ELSE xs[1] \o sep \o Join(sep, Tail(xs))

\* str comparison: lexicographic on character codes
RECURSIVE StrLeq(_, _)
StrLeq(a, b) ==
  \/ a = <<>>
  \/ /\ b # <<>>
     /\ \/ Ord[Head(a)] < Ord[Head(b)]
        \/ Head(a) = Head(b) /\ StrLeq(Tail(a), Tail(b))

RECURSIVE Insert(_, _)
Insert(x, xs) ==
  IF xs = <<>> THEN <<x>>
  ELSE IF StrLeq(x, Head(xs)) THEN <<x>> \o xs
  ELSE <<Head(xs)>> \o Insert(x, Tail(xs))

RECURSIVE SortFrom(_)
SortFrom(xs) == IF xs = <<>> THEN <<>> ELSE Insert(Head(xs), SortFrom(Tail(xs)))

\* list.sort() left out
NoSort(xs) == xs

\* list.sort()
Sort(xs) == SortFrom(xs)

\* ------------------------------------------------------------------- glob
\* fnmatch of a file name against [a-z0-9]*.py
Matches(f) ==
  /\ Len(f) >= 4
  /\ (97 <= Ord[f[1]] /\ Ord[f[1]] <= 122) \/ (48 <= Ord[f[1]] /\ Ord[f[1]] <= 57)
  /\ SubSeq(f, Len(f) - 2, Len(f)) = <<".", "p", "y">>

\* the directory part of the pattern glob() is given for scanned directory d
GlobDir(d) ==
  IF d = "" THEN <<"..", "/", "quantecon", "/">>
  ELSE IF d = "models/solow"
       THEN <<"..", "/", "quantecon", "/", "models", "/", "solow", "/">>
       ELSE <<"..", "/", "quantecon", "/", d, "/">>

\* every order in which a set can be listed
Orders(S) ==
  {s \in [1..Cardinality(S) -> S] : \A i, j \in 1..Cardinality(S) : i # j => s[i] # s[j]}

\* the results glob() may return for directory d holding the files fileset
Glob(d, fileset) ==
  {[k \in 1..Len(o) |-> GlobDir(d) \o o[k]] : o \in Orders({f \in fileset : Matches(f)})}

\* lambda x: x.split('/')[-1]   (all_auto: the extension stays on)
KeepExt(x) == SplitLast(x, "/")

\* lambda x: x.split('/')[-1][:-3]
StripName(x) == DropLast3(SplitLast(x, "/"))

\* mod.split(".")[0]
DropEnding(mod) == SplitFirst(mod, ".")

\* -------------------------------------------------------------- templates
NL == "\n"

ModuleDoc(package, mod_name, equals) ==
  mod_name \o <<NL>> \o equals \o <<NL, NL, ".. automodule:: ", package>> \o mod_name
    \o <<NL, "    :members:", NL, "    :undoc-members:", NL,
         "    :show-inheritance:", NL>>

module_template(mod_name, equals) == ModuleDoc("quantecon.", mod_name, equals)
markov_module_template(mod_name, equals) == ModuleDoc("quantecon.markov.", mod_name, equals)
model_module_template(mod_name, equals) == ModuleDoc("quantecon.models.", mod_name, equals)
solow_model_module_template(mod_name, equals) ==
  ModuleDoc("quantecon.models.solow.", mod_name, equals)
random_module_template(mod_name, equals) == ModuleDoc("quantecon.random.", mod_name, equals)
util_module_template(mod_name, equals) == ModuleDoc("quantecon.util.", mod_name, equals)

IndexHead ==
  <<"=======================", NL, "QuantEcon documentation", NL,
    "=======================", NL, NL>>

IndexFoot ==
  <<"Indices and tables", NL, "==================", NL, NL,
    "* :ref:'genindex'", NL, "* :ref:'modindex'", NL, "* :ref:'search'", NL>>

all_index_template(generated) ==
  IndexHead \o <<"Auto-generated documentation by module:", NL, NL,
                 ".. toctree::", NL, "   :maxdepth: 2", NL, NL, "   ">>
    \o generated \o <<NL, NL, NL>> \o IndexFoot

split_index_template ==
  IndexHead
    \o <<"The 'quantecon' python library is composed of two main section: models", NL,
         "and tools. The models section contains implementations of standard", NL,
         "models, many of which are discussed in lectures on the website 'quant-", NL,
         "econ.net <http://quant-econ.net>'_.", NL, NL,
         ".. toctree::", NL, "   :maxdepth: 2", NL, NL,
         "   ", "markov", NL, "   ", "models", NL, "   ", "random", NL,
         "   ", "tools", NL, NL>>
    \o IndexFoot

split_file_template(name, equals, files) ==
  name \o <<NL>> \o equals \o <<NL, NL, ".. toctree::", NL, "   :maxdepth: 2", NL, NL, "   ">>
    \o files \o <<NL>>

\* str.capitalize() and len() of the five index names, spelled out
Spell(f_name) ==
  CASE f_name = "markov" -> <<"m", "a", "r", "k", "o", "v">>
    [] f_name = "models" -> <<"m", "o", "d", "e", "l", "s">>
    [] f_name = "random" -> <<"r", "a", "n", "d", "o", "m">>
    [] f_name = "tools" -> <<"t", "o", "o", "l", "s">>
    [] f_name = "util" -> <<"u", "t", "i", "l">>

Upper(c) == CASE c = "m" -> "M" [] c = "r" -> "R" [] c = "t" -> "T" [] c = "u" -> "U"

Capitalize(f_name) == <<Upper(Head(Spell(f_name)))>> \o Tail(Spell(f_name))

\* ------------------------------------------------------------------ paths
\* os.path.join("source", f_name)
source_join(f_name) == <<"source", "/">> \o f_name

\* the directory a path lies in
RECURSIVE Parent(_)
Parent(path) ==
  IF path = <<>> THEN <<>>
  ELSE IF path[Len(path)] = "/" THEN SubSeq(path, 1, Len(path) - 1)
  ELSE Parent(SubSeq(path, 1, Len(path) - 1))

\* the directories os.makedirs(path) leaves in existence
RECURSIVE MakeDirs(_)
MakeDirs(path) == IF path = <<>> THEN {} ELSE {path} \cup MakeDirs(Parent(path))

\* model_tool's six lists, in the order of its loops: the local variable, the
\* scanned directory, and the output directory below source/
Cats ==
  << [var |-> "markov", scan |-> "markov", out |-> <<"markov">>],
     [var |-> "models", scan |-> "models", out |-> <<"models">>],
     [var |-> "solow", scan |-> "models/solow", out |-> <<"models", "/", "solow">>],
     [var |-> "random", scan |-> "random", out |-> <<"random">>],
     [var |-> "tools", scan |-> "", out |-> <<"tools">>],
     [var |-> "util", scan |-> "util", out |-> <<"util">>] >>

\* for folder in [...]: the folder list with its last entry lost
FoldersShort ==
  << <<"markov">>, <<"models">>, <<"models", "/", "solow">>, <<"random">>, <<"tools">> >>

\* for folder in ["markov","models","models/solow","random","tools","util"]
Folders ==
  << <<"markov">>, <<"models">>, <<"models", "/", "solow">>, <<"random">>, <<"tools">>,
     <<"util">> >>

\* for f_name in ("markov","models","random","tools","util")
IndexNames == <<"markov", "models", "random", "tools", "util">>

None == <<>>

\* ------------------------------------------------------------------ state
VARIABLES
  argv,    \* sys.argv[1:]
  src,     \* the scanned tree: pairs <<directory, file name>>
  rerun,   \* whether the program has run to its end on this tree before
  pc,      \* position of the program
  i,       \* index of the loop the program is in
  files,   \* the glob() results bound so far: markov_files, ... by list name
  names,   \* the lists bound so far: mod_names, markov, models, solow, ...
  dirs,    \* directories that exist below the output root
  fs,      \* documents of the output tree: path -> content
  handle,  \* path of the document open for writing, or None
  err,     \* "none", or the exception that ended the run
  torn,    \* path of the document a failed write left incomplete, or None
  log,     \* paths opened for writing in this run, in order
  calls,   \* main functions called in this run
  prev     \* the output documents as the previous run left them

vars ==
  <<argv, src, rerun, pc, i, files, names, dirs, fs, handle, err, torn, log, calls, prev>>

\* assignment to a local variable
Bind(locals, v, x) == [w \in DOMAIN locals \cup {v} |-> IF w = v THEN x ELSE locals[w]]

FilesIn(d) == {e[2] : e \in {x \in src : x[1] = d}}

\* open(path, "w") creates or truncates the document
Truncated(path) == [q \in DOMAIN fs \cup {path} |-> IF q = path THEN <<>> ELSE fs[q]]

\* f.write(text) on the open document
Written(text) == [q \in DOMAIN fs |-> IF q = handle THEN text ELSE fs[q]]

\* with open(path, "w") as f: entering the block.  A missing directory makes
\* open() raise IOError.
Open(path, next) ==
  IF Parent(path) \in dirs
  THEN /\ handle' = path
       /\ fs' = Truncated(path)
       /\ log' = Append(log, path)
       /\ pc' = next
       /\ err' = err
  ELSE /\ pc' = "error"
       /\ err' = "IOError"
       /\ UNCHANGED <<handle, fs, log>>

\* f.write(text) and leaving the with block, which closes the document
WriteClose(text, next) ==
  /\ handle # None
  /\ fs' = Written(text)
  /\ handle' = None
  /\ pc' = next

Init ==
  /\ argv \in ArgLists(MaxArgs)
  /\ src \in UpTo(SrcDirs \X FileNames, MaxFiles)
  /\ rerun = FALSE
  /\ pc = "main"
  /\ i = 1
  /\ files = <<>>
  /\ names = <<>>
  /\ dirs = {}
  /\ fs = <<>>
  /\ handle = None
  /\ err = "none"
  /\ torn = None
  /\ log = <<>>
  /\ calls = <<>>
  /\ prev = <<>>

\* ------------------------------------------------------------------- main
\* "single" in sys.argv[1:], written as sys.argv[1] == "single"
SingleFirst(args) == Len(args) >= 1 /\ args[1] = "single"

\* "single" in sys.argv[1:]
SingleIn(args) == \E k \in 1..Len(args) : args[k] = "single"

Main ==
  /\ pc = "main"
  /\ IF SingleIn(argv)
     THEN pc' = "all_auto.glob" /\ calls' = Append(calls, "all_auto")
     ELSE pc' = "model_tool.glob" /\ calls' = Append(calls, "model_tool")
  /\ i' = 1
  /\ UNCHANGED <<argv, src, rerun, files, names, dirs, fs, handle, err, torn, log, prev>>

\* --------------------------------------------------------------- all_auto
AllAutoGlob ==
  /\ pc = "all_auto.glob"
  /\ \E g \in Glob("", FilesIn("")) :
       /\ files' = Bind(files, "mod_names", g)
       /\ names' = Bind(names, "mod_names", [k \in DOMAIN g |-> KeepExt(g[k])])
  /\ pc' = "all_auto.mkdir"
  /\ UNCHANGED <<argv, src, rerun, i, dirs, fs, handle, err, torn, log, calls, prev>>

AllAutoMkdir ==
  /\ pc = "all_auto.mkdir"
  /\ dirs' = IF source_join(<<"modules">>) \notin dirs
             THEN dirs \cup MakeDirs(source_join(<<"modules">>))
             ELSE dirs
  /\ pc' = "all_auto.for"
  /\ i' = 1
  /\ UNCHANGED <<argv, src, rerun, files, names, fs, handle, err, torn, log, calls, prev>>

\* new_path of the i-th pass of the loop
AllAutoPath(k) ==
  <<"source", "/", "modules", "/">> \o DropEnding(names["mod_names"][k]) \o <<".rst">>

AllAutoFor ==
  /\ pc = "all_auto.for"
  /\ IF i <= Len(names["mod_names"])
     THEN Open(AllAutoPath(i), "all_auto.gen_module")
     ELSE pc' = "all_auto.index" /\ UNCHANGED <<handle, fs, log, err>>
  /\ UNCHANGED <<argv, src, rerun, i, files, names, dirs, torn, calls, prev>>

\* gen_module is defined nowhere: the call raises NameError, the with block
\* closes the document it has just truncated, and the run ends.
AllAutoGenModule ==
  /\ pc = "all_auto.gen_module"
  /\ handle' = None
  /\ err' = "NameError"
  /\ pc' = "error"
  /\ UNCHANGED <<argv, src, rerun, i, files, names, dirs, fs, torn, log, calls, prev>>

AllAutoIndexOpen ==
  /\ pc = "all_auto.index"
  /\ Open(source_join(<<"index.rst">>), "all_auto.index.write")
  /\ UNCHANGED <<argv, src, rerun, i, files, names, dirs, torn, calls, prev>>

AllAutoIndexText ==
  all_index_template(
    Join(<<NL, "   ">>,
         [k \in DOMAIN names["mod_names"] |->
            <<"modules/">> \o DropEnding(names["mod_names"][k])]))

AllAutoIndexWrite ==
  /\ pc = "all_auto.index.write"
  /\ WriteClose(AllAutoIndexText, "done")
  /\ UNCHANGED <<argv, src, rerun, i, files, names, dirs, err, torn, log, calls, prev>>

\* ------------------------------------------------------------- model_tool
\* One glob, map and sort of lines 189-222: the i-th list.
ModelToolGlob ==
  /\ pc = "model_tool.glob"
  /\ \E g \in Glob(Cats[i].scan, FilesIn(Cats[i].scan)) :
       /\ files' = Bind(files, Cats[i].var, g)
       /\ names' = Bind(names, Cats[i].var, Sort([k \in DOMAIN g |-> StripName(g[k])]))
  /\ IF i < Len(Cats)
     THEN i' = i + 1 /\ pc' = pc
     ELSE i' = 1 /\ pc' = "model_tool.mkdir"
  /\ UNCHANGED <<argv, src, rerun, dirs, fs, handle, err, torn, log, calls, prev>>

\* One pass of the loop over the output folders.
ModelToolMkdir ==
  /\ pc = "model_tool.mkdir"
  /\ IF i <= Len(Folders)
     THEN /\ dirs' = IF source_join(Folders[i]) \notin dirs
                     THEN dirs \cup MakeDirs(source_join(Folders[i]))
                     ELSE dirs
          /\ i' = i + 1
          /\ pc' = pc
     ELSE /\ dirs' = dirs
          /\ i' = 1
          /\ pc' = "model_tool.for"
  /\ UNCHANGED <<argv, src, rerun, files, names, fs, handle, err, torn, log, calls, prev>>

\* The passes of the six loops of lines 229-268, one after the other.
RECURSIVE WorkFrom(_)
WorkFrom(k) ==
  IF k > Len(Cats) THEN <<>>
  ELSE [m \in 1..Len(names[Cats[k].var]) |-> [cat |-> k, mod |-> names[Cats[k].var][m]]]
         \o WorkFrom(k + 1)

Work == WorkFrom(1)

\* new_path of a pass
ModelToolPath(w) == source_join(Cats[w.cat].out) \o <<"/">> \o w.mod \o <<".rst">>

\* the text a pass writes: the template of its loop
ModelToolText(w) ==
  LET mod == w.mod
      equals == Rep("=", Len(mod))
      v == Cats[w.cat].var
  IN CASE v = "markov" -> markov_module_template(mod, equals)
       [] v = "models" -> model_module_template(mod, equals)
       [] v = "solow" -> solow_model_module_template(mod, equals)
       [] v = "random" -> random_module_template(mod, equals)
       [] v = "tools" -> module_template(mod, equals)
       [] v = "util" -> util_module_template(mod, equals)

ModelToolFor ==
  /\ pc = "model_tool.for"
  /\ IF i <= Len(Work)
     THEN Open(ModelToolPath(Work[i]), "model_tool.write")
     ELSE pc' = "model_tool.index" /\ UNCHANGED <<handle, fs, log, err>>
  /\ UNCHANGED <<argv, src, rerun, i, files, names, dirs, torn, calls, prev>>

ModelToolWrite ==
  /\ pc = "model_tool.write"
  /\ WriteClose(ModelToolText(Work[i]), "model_tool.for")
  /\ i' = i + 1
  /\ UNCHANGED <<argv, src, rerun, files, names, dirs, err, torn, log, calls, prev>>

ModelToolIndexOpen ==
  /\ pc = "model_tool.index"
  /\ Open(source_join(<<"index.rst">>), "model_tool.index.write")
  /\ UNCHANGED <<argv, src, rerun, i, files, names, dirs, torn, calls, prev>>

ModelToolIndexWrite ==
  /\ pc = "model_tool.index.write"
  /\ WriteClose(split_index_template, "model_tool.toc")
  /\ i' = 1
  /\ UNCHANGED <<argv, src, rerun, files, names, dirs, err, torn, log, calls, prev>>

\* "markov/" + "\n   markov/".join(markov), and so on
Listing(prefix, list) == <<prefix>> \o Join(<<NL, "   ", prefix>>, list)

toc_tree_list(f_name) ==
  CASE f_name = "markov" -> Listing("markov/", names["markov"])
    [] f_name = "models" -> Listing("models/", names["models"]) \o <<NL, "   ", "solow/">>
    [] f_name = "random" -> Listing("random/", names["random"])
    [] f_name = "tools" -> Listing("tools/", names["tools"])
    [] f_name = "util" -> Listing("util/", names["util"])

TocPath(f_name) == source_join(<<f_name, ".rst">>)

TocText(f_name) ==
  split_file_template(Capitalize(f_name), Rep("=", Len(Spell(f_name))),
                      toc_tree_list(f_name))

ModelToolTocOpen ==
  /\ pc = "model_tool.toc"
  /\ IF i <= Len(IndexNames)
     THEN Open(TocPath(IndexNames[i]), "model_tool.toc.write")
     ELSE pc' = "done" /\ UNCHANGED <<handle, fs, log, err>>
  /\ UNCHANGED <<argv, src, rerun, i, files, names, dirs, torn, calls, prev>>

ModelToolTocWrite ==
  /\ pc = "model_tool.toc.write"
  /\ WriteClose(TocText(IndexNames[i]), "model_tool.toc")
  /\ i' = i + 1
  /\ UNCHANGED <<argv, src, rerun, files, names, dirs, err, torn, log, calls, prev>>

\* ------------------------------------------------------------ environment
\* the document the program opens next, when it is about to open one
NextOpen ==
  CASE pc = "all_auto.for" /\ i <= Len(names["mod_names"]) -> AllAutoPath(i)
    [] pc = "all_auto.index" -> source_join(<<"index.rst">>)
    [] pc = "model_tool.for" /\ i <= Len(Work) -> ModelToolPath(Work[i])
    [] pc = "model_tool.index" -> source_join(<<"index.rst">>)
    [] pc = "model_tool.toc" /\ i <= Len(IndexNames) -> TocPath(IndexNames[i])
    [] OTHER -> None

\* the text the program writes next, when it is about to write
NextText ==
  CASE pc = "all_auto.index.write" -> AllAutoIndexText
    [] pc = "model_tool.write" -> ModelToolText(Work[i])
    [] pc = "model_tool.index.write" -> split_index_template
    [] pc = "model_tool.toc.write" -> TocText(IndexNames[i])

AtWrite ==
  pc \in {"all_auto.index.write", "model_tool.write", "model_tool.index.write",
          "model_tool.toc.write"}

\* open(path, "w") raises IOError (permission denied, ...): nothing catches it.
OpenFails ==
  /\ NextOpen # None
  /\ pc' = "error"
  /\ err' = "IOError"
  /\ UNCHANGED <<argv, src, rerun, i, files, names, dirs, fs, handle, torn, log, calls, prev>>

\* f.write(text) raises IOError, caught and passed over: the run goes on
WriteFailsCaught ==
  /\ AtWrite
  /\ \E n \in {0, Len(NextText) \div 2} : fs' = Written(SubSeq(NextText, 1, n))
  /\ handle' = None
  /\ pc' = IF pc = "all_auto.index.write" THEN "done"
           ELSE IF pc = "model_tool.write" THEN "model_tool.for"
           ELSE "model_tool.toc"
  /\ i' = IF pc \in {"model_tool.write", "model_tool.toc.write"} THEN i + 1 ELSE 1
  /\ err' = "IOError"
  /\ torn' = handle
  /\ UNCHANGED <<argv, src, rerun, files, names, dirs, log, calls, prev>>

\* f.write(text) raises IOError (disk full, ...) with none or a part of the text
\* written: the with block closes the document and the exception ends the run.
WriteFails ==
  /\ AtWrite
  /\ \E n \in {0, Len(NextText) \div 2} : fs' = Written(SubSeq(NextText, 1, n))
  /\ torn' = handle
  /\ handle' = None
  /\ pc' = "error"
  /\ err' = "IOError"
  /\ UNCHANGED <<argv, src, rerun, i, files, names, dirs, log, calls, prev>>

\* The program is invoked again, with the same arguments on the same tree.
Rerun ==
  /\ pc = "done"
  /\ rerun' = TRUE
  /\ prev' = fs
  /\ pc' = "main"
  /\ i' = 1
  /\ files' = <<>>
  /\ names' = <<>>
  /\ log' = <<>>
  /\ calls' = <<>>
  /\ UNCHANGED <<argv, src, dirs, fs, handle, err, torn>>

Next ==
  \/ Main
  \/ AllAutoGlob
  \/ AllAutoMkdir
  \/ AllAutoFor
  \/ AllAutoGenModule
  \/ AllAutoIndexOpen
  \/ AllAutoIndexWrite
  \/ ModelToolGlob
  \/ ModelToolMkdir
  \/ ModelToolFor
  \/ ModelToolWrite
  \/ ModelToolIndexOpen
  \/ ModelToolIndexWrite
  \/ ModelToolTocOpen
  \/ ModelToolTocWrite
  \/ OpenFails
  \/ WriteFails
  \/ Rerun

Spec == Init /\ [][Next]_vars

\* ------------------------------------------------------ reading documents
RECURSIVE Lines(_)
Lines(text) ==
  IF \E k \in 1..Len(text) : text[k] = NL
  THEN LET k == CHOOSE n \in 1..Len(text) :
                  text[n] = NL /\ \A m \in 1..(n - 1) : text[m] # NL
       IN <<SubSeq(text, 1, k - 1)>> \o Lines(SubSeq(text, k + 1, Len(text)))
  ELSE <<text>>

\* the inclusion list of an index document: its indented, non-blank lines,
\* each without its indentation
Entries(text) ==
  LET n == Len(text)
      breaks == {k \in 1..n : text[k] = NL} \cup {n + 1}
      starts == {k \in 1..(n - 1) : /\ text[k] = "   "
                                     /\ (k = 1 \/ text[k - 1] = NL)
                                     /\ text[k + 1] # NL}
      EndOf(k) == CHOOSE b \in breaks : b > k /\ \A c \in breaks : c > k => b <= c
      Nth(j) == CHOOSE k \in starts : Cardinality({m \in starts : m <= k}) = j
  IN [j \in 1..Cardinality(starts) |-> SubSeq(text, Nth(j) + 1, EndOf(Nth(j)) - 1)]

\* the module names of the entries "<prefix>/<name>" of an inclusion list
EntryNames(text) ==
  LET mods == SelectSeq(Entries(text), LAMBDA e : Len(e) >= 2)
  IN [k \in 1..Len(mods) |-> Tail(mods[k])]

Range(f) == {f[x] : x \in DOMAIN f}

IndexPath == <<"source", "/", "index.rst">>
IsIndexDoc(path) == Parent(path) = <<"source">>
IsModuleDoc(path) == Parent(path) # <<"source">>

\* the module a per-module document is named after
ModOf(path) == SubSeq(SplitLast(path, "/"), 1, Len(SplitLast(path, "/")) - 1)

\* the dotted prefix of the automodule directive, by output directory
PackageOf(path) ==
  LET d == Parent(path)
  IN CASE d = <<"source", "/", "markov">> -> "quantecon.markov."
       [] d = <<"source", "/", "models">> -> "quantecon.models."
       [] d = <<"source", "/", "models", "/", "solow">> -> "quantecon.models.solow."
       [] d = <<"source", "/", "random">> -> "quantecon.random."
       [] d = <<"source", "/", "util">> -> "quantecon.util."
       [] OTHER -> "quantecon."

StrLess(a, b) == StrLeq(a, b) /\ a # b
Ascending(xs) == \A k \in 1..(Len(xs) - 1) : StrLeq(xs[k], xs[k + 1])
StrictlyAscending(xs) == \A k \in 1..(Len(xs) - 1) : StrLess(xs[k], xs[k + 1])

\* file names of scanned directory d that the pattern [a-z0-9]*.py matches
Discovered(d) == {f \in FilesIn(d) : Len(f) >= 4 /\ f[1] \in {"a", "b", "p", "y"}
                                      /\ f[Len(f) - 2] = "." /\ f[Len(f) - 1] = "p"
                                      /\ f[Len(f)] = "y"}

\* a file name without its .py extension
Stem(f) == SubSeq(f, 1, Len(f) - 3)

CategoryDirs ==
  {source_join(<<"markov">>), source_join(<<"models">>),
   source_join(<<"models", "/", "solow">>), source_join(<<"random">>),
   source_join(<<"tools">>), source_join(<<"util">>)}

ModulesDir == source_join(<<"modules">>)

\* the text "<c>/" that starts the entries of category c
EntryPrefix(c) ==
  CASE c = "markov" -> "markov/" [] c = "models" -> "models/" [] c = "random" -> "random/"
    [] c = "tools" -> "tools/" [] c = "util" -> "util/"

\* ------------------------------------------------------------------ claims
\* C1: the mode depends only on whether "single" occurs among the arguments,
\* at any position: then all_auto alone runs and the output tree holds
\* source/modules/ and source/index.rst and nothing of the split layout;
\* otherwise model_tool alone runs, never creates source/modules/, and a
\* completed run has created the category directories and index documents.
C1_ModeSelection ==
  pc # "main" =>
    /\ Len(calls) = 1
    /\ calls[1] = IF "single" \in Range(argv) THEN "all_auto" ELSE "model_tool"
    /\ calls[1] = "all_auto" =>
         /\ dirs \subseteq {<<"source">>, ModulesDir}
         /\ \A q \in DOMAIN fs : q = IndexPath \/ Parent(q) = ModulesDir
    /\ calls[1] = "model_tool" =>
         /\ ModulesDir \notin dirs
         /\ \A q \in DOMAIN fs : Parent(q) # ModulesDir
         /\ pc = "done" =>
              /\ CategoryDirs \subseteq dirs
              /\ \A k \in 1..Len(IndexNames) : TocPath(IndexNames[k]) \in DOMAIN fs

\* C1 witness: "single" as the second of two arguments, and the single-index
\* run has written its index.
C1_Witness ==
  /\ argv = <<"foo", "single">>
  /\ pc = "done"
  /\ IndexPath \in DOMAIN fs
  /\ ModulesDir \in dirs

\* C2: every per-module document the run leaves (none being written at the
\* moment, none cut short by a failed write) starts with the module name, has
\* an underline of "=" of the same length as its second line, and then the
\* automodule directive of its category for that module.
C2_Heading ==
  \A q \in DOMAIN fs :
    (IsModuleDoc(q) /\ q # handle /\ q # torn) =>
      LET L == Lines(fs[q])
          m == ModOf(q)
      IN /\ Len(L) >= 4
         /\ L[1] = m
         /\ L[2] = Rep("=", Len(m))
         /\ L[3] = <<>>
         /\ L[4] = <<".. automodule:: ", PackageOf(q)>> \o m

\* C3: a single-index run that no I/O error stops completes, and then every
\* discovered module has its document source/modules/<name>.rst, rendered from
\* the generic template, and its entry modules/<name> in source/index.rst.
C3_SingleIndex ==
  (calls = <<"all_auto">> /\ err # "IOError") =>
    /\ pc # "error"
    /\ pc = "done" =>
         \A f \in Discovered("") :
           LET q == ModulesDir \o <<"/">> \o Stem(f) \o <<".rst">>
           IN /\ q \in DOMAIN fs
              /\ fs[q] = module_template(Stem(f), Rep("=", Len(Stem(f))))
              /\ (<<"modules/">> \o Stem(f)) \in Range(Entries(fs[IndexPath]))

\* the document the program has just written in full, if any
JustWritten ==
  IF log # <<>> /\ handle = None /\ torn = None THEN {log[Len(log)]} ELSE {}

AllIndexesSorted ==
  \A q \in DOMAIN fs :
    (IsIndexDoc(q) /\ q # handle /\ q # torn) => Ascending(EntryNames(fs[q]))

C5_CategoryListing ==
  (pc = "done" /\ calls = <<"model_tool">>) =>
    \A k \in 1..Len(IndexNames) :
      LET c == IndexNames[k]
          E == Entries(fs[TocPath(c)])
          D == Discovered(IF c = "tools" THEN "" ELSE c)
          n == Cardinality(D)
      IN /\ Len(E) = IF c = "models" THEN n + 1 ELSE n
         /\ {E[x] : x \in 1..n} = {<<EntryPrefix(c)>> \o Stem(f) : f \in D}
         /\ c = "models" => E[n + 1] = <<"solow/">>

\* C6: run twice in a row on an unchanged tree, the generation succeeds both
\* times unless an I/O error stops it, and the second run leaves every
\* document as the first run left it.
C6_Idempotent ==
  err # "IOError" =>
    /\ pc # "error"
    /\ (rerun /\ pc = "done") => fs = prev

\* the scanned directory behind each list
ScanOf(v) ==
  CASE v \in {"mod_names", "tools"} -> "" [] v = "solow" -> "models/solow" [] OTHER -> v

\* the module names a list stands for in the generation
UsedNames(v) ==
  IF v = "mod_names" THEN [k \in DOMAIN names[v] |-> DropEnding(names[v][k])] ELSE names[v]

\* C7: after each scan, in both modes, the module names used for generation
\* are the matching file names without their .py extension, one name per
\* file, distinct names for distinct files, in ascending order.
C7_Discovery ==
  \A v \in DOMAIN names :
    /\ Len(UsedNames(v)) = Cardinality(Discovered(ScanOf(v)))
    /\ Range(UsedNames(v)) = {Stem(f) : f \in Discovered(ScanOf(v))}
    /\ StrictlyAscending(UsedNames(v))

\* C8: a step on which opening or writing a document fails ends the run in
\* the error state with no document left open; it creates no document and
\* changes none but the one being written; and the error state is final:
\* nothing is created or modified after it.
C8_FailureStops ==
  [][ /\ (err = "none" /\ err' = "IOError") =>
           /\ pc' = "error"
           /\ handle' = None
           /\ dirs' = dirs
           /\ log' = log
           /\ DOMAIN fs' = DOMAIN fs
           /\ \A q \in DOMAIN fs : q # handle => fs'[q] = fs[q]
      /\ pc = "error" => UNCHANGED vars ]_vars

\* C8 witness: a write failed on the second or a later document of a run; the
\* first document of the run keeps its text and no document is open.
C8_Witness ==
  /\ pc = "error"
  /\ err = "IOError"
  /\ handle = None
  /\ Len(log) >= 2
  /\ torn = log[Len(log)]
  /\ IsModuleDoc(log[1])
  /\ fs[log[1]] = ModuleDoc(PackageOf(log[1]), ModOf(log[1]), Rep("=", Len(ModOf(log[1]))))

\* the text "<d>/" an entry for a document of output directory d starts with
DirPrefix(d) ==
  CASE d = <<"source", "/", "markov">> -> "markov/"
    [] d = <<"source", "/", "models">> -> "models/"
    [] d = <<"source", "/", "models", "/", "solow">> -> "solow/"
    [] d = <<"source", "/", "random">> -> "random/"
    [] d = <<"source", "/", "tools">> -> "tools/"
    [] d = <<"source", "/", "util">> -> "util/"
    [] OTHER -> "modules/"

CategoryIndexDocs == {q \in DOMAIN fs : IsIndexDoc(q) /\ q # IndexPath}

\* C9: after a split-index run every category directory has its category
\* index document, source/index.rst refers to every category index document,
\* and every per-module document is listed by some category index document.
C9_IndexCoversAll ==
  (pc = "done" /\ calls = <<"model_tool">>) =>
    /\ \A d \in CategoryDirs \cap dirs : (d \o <<".rst">>) \in DOMAIN fs
    /\ \A q \in CategoryIndexDocs : <<q[3]>> \in Range(Entries(fs[IndexPath]))
    /\ \A q \in {x \in Range(log) : IsModuleDoc(x)} :
         \E t \in CategoryIndexDocs :
           (<<DirPrefix(Parent(q))>> \o ModOf(q)) \in Range(Entries(fs[t]))

\* number of per-module documents the run writes
ModuleCount ==
  IF "mod_names" \in DOMAIN names THEN Len(names["mod_names"]) ELSE Len(Work)

\* C10: discovery, then per-module generation, then index assembly: nothing
\* is opened for writing before every scan of the mode is done; a document is
\* only opened in a directory that exists; once an index document is opened
\* every per-module document of the run has been, and none follows; and no
\* document is opened twice in a run.
C10_Order ==
  /\ log # <<>> =>
       DOMAIN files = IF calls = <<"all_auto">> THEN {"mod_names"}
                      ELSE {Cats[k].var : k \in 1..Len(Cats)}
  /\ NextOpen # None => Parent(NextOpen) \in dirs
  /\ LET where == [a \in 1..Len(log) |-> Parent(log[a])]
     IN /\ \A a \in 1..Len(log) : where[a] \in dirs
        /\ \A a, b \in 1..Len(log) :
             /\ (a < b /\ where[a] = <<"source">>) => where[b] = <<"source">>
             /\ a # b => log[a] # log[b]
        /\ (\E a \in 1..Len(log) : where[a] = <<"source">>) =>
             Cardinality({a \in 1..Len(log) : where[a] # <<"source">>}) = ModuleCount

\* C10 witness: a second split-index run has ended after writing two
\* per-module documents and then the six index documents.
C10_Witness ==
  /\ pc = "done"
  /\ rerun
  /\ calls = <<"model_tool">>
  /\ Len(Work) = 2
  /\ Len(log) = 2 + 1 + Len(IndexNames)

=============================================================================
